---- MODULE Spec2Model ----
(***************************************************************************)
(* A model of the F1 tyre-degradation pipeline:                            *)
(*   - scripts/load_data.py: F1DataLoader (entity resolution with          *)
(*     check-then-create, batched idempotent inserts) and main();          *)
(*   - app/data_collection/fastf1_collector.py:                            *)
(*     F1DataCollector.calculate_degradation_metrics (SpecCalc on the laps *)
(*     of one race, SpecRaces on laps of two races, SpecStint on the       *)
(*     stints of one driver) and collect_season_data (SpecSeason).         *)
(*                                                                         *)
(* The relational store is PostgreSQL reached through psycopg2: one        *)
(* connection, one open transaction.  `db` is the committed content of the *)
(* store and `tx` is what the connection sees (committed content plus its  *)
(* own uncommitted writes).  commit() makes db equal to tx, rollback() and *)
(* close() make tx equal to db.  Sequences (surrogate ids) are never       *)
(* rolled back.                                                            *)
(***************************************************************************)
EXTENDS Integers, Sequences, FiniteSets, TLC

\* ------------------------------------------------------------------ bounds
\* Total number of CSV rows over the lap files of the data directory.
MaxRows == 3
\* Number of lap files in the data directory.
MaxFiles == 2
\* Number of times main() is run over the same data directory.
MaxRuns == 2
\* Number of batch writes the database may refuse for reasons of its own
\* (connection loss, a constraint of the schema).
MaxFaults == 1
\* Rows per batch; load_data.py:176 sets 1000, scaled down here.
chunk_size == 2
\* Number of laps in a frame given to calculate_degradation_metrics.
MaxLaps == 3
\* Number of laps of a driver in a frame made of that driver's stints.
MaxStintLaps == 4
\* Number of races in the schedule of the season collected.
MaxRaces == 3

\* ------------------------------------------------------------------ values
\* pandas reads an empty CSV field as NaN (numeric columns and text columns).
NaN == -1000
NaNs == "nan"
\* Python None, as written into a nullable column.
None == -1001

\* pd.notna on a numeric column.
pd_notna(x) == x # NaN

\* A CSV row of a lap file (the columns that decide what the loader does).
Row(rr, cn, d, t, ln, lt, st, at) ==
    [year |-> 2023, race_round |-> rr, circuit_name |-> cn, driver |-> d,
     team |-> t, lap_number |-> ln, lap_time_seconds |-> lt, stint |-> st,
     air_temp |-> at]

GoodRows ==
    { Row(1, "Monza", "VER", "RBR", 1, 90, 1, 20),
      Row(1, "Monza", "VER", "RBR", 1, 91, 1, 25),
      Row(1, "Monza", "PER", "RBR", 2, 92, 2, NaN),
      Row(2, "Spa", "VER", "RBR", 1, 93, 1, NaN) }

BadRows ==
    { [Row(1, "Monza", "VER", "RBR", 2, 94, 1, NaN) EXCEPT !.year = NaN],
      Row(1, "Monza", NaNs, "RBR", 2, 94, 1, NaN),
      Row(2, "Spa", "PER", "RBR", NaN, 94, 1, NaN),
      Row(1, "Monza", "PER", "RBR", 1, NaN, 1, NaN),
      Row(1, "Monza", "VER", "RBR", 2, 0, NaN, 21) }

Rows == GoodRows \cup BadRows

RECURSIVE SeqsUpTo(_, _)
SeqsUpTo(S, n) ==
    IF n = 0 THEN { <<>> }
    ELSE LET shorter == SeqsUpTo(S, n - 1)
         IN  shorter \cup { Append(s, x) : s \in { q \in shorter : Len(q) = n - 1 }, x \in S }

\* The data directories: up to k lap files (each with at least one row)
\* holding at most n rows in total.
RECURSIVE Dirs(_, _)
Dirs(k, n) ==
    IF k = 0 THEN { <<>> }
    ELSE { <<>> } \cup
         UNION { { <<f>> \o d : d \in Dirs(k - 1, n - Len(f)) } :
                 f \in SeqsUpTo(Rows, n) \ { <<>> } }

DataDirs == { dir \in Dirs(MaxFiles, MaxRows) : Len(dir) >= 1 }

\* A CSV row of a pit-stop file.
PitRow(rr, d, l) == [year |-> 2023, race_round |-> rr, driver |-> d, lap |-> l]

\* The pit-stop files main() finds: one file, with a row of a race the store
\* may not hold, a row that names its driver as the collector writes it (the
\* provider's driverId, not the three-letter code), a row that resolves, and
\* a row without a driver.
pit_files ==
    << << PitRow(2, "VER", 1), PitRow(1, "max_verstappen", 1), PitRow(1, "VER", 1),
          PitRow(1, NaNs, 2) >> >>

\* A lap of the frame calculate_degradation_metrics receives (the columns it
\* reads, and race_round to tell the races of a frame apart).
Lap(rr, d, st, ln, lt, tl) ==
    [race_round |-> rr, driver |-> d, stint |-> st, lap_number |-> ln,
     lap_time_seconds |-> lt, tyre_life |-> tl]

\* Laps of one race, as collect_season_data passes them (line 289): the tyres
\* of every stint are new on lap 1, so tyre_life is the lap number.
CalcLaps ==
    { Lap(1, d, st, ln, lt, ln) :
        d \in {"PER", "VER"}, st \in {1, 2}, ln \in {1, 2, 3}, lt \in {NaN, 88, 90} }

SameLap(a, b) ==
    a.race_round = b.race_round /\ a.driver = b.driver /\ a.lap_number = b.lap_number

\* The frames of up to n laps of L in any order, the lap number unique within
\* a driver's race.
RECURSIVE FramesOf(_, _)
FramesOf(L, n) ==
    IF n = 0 THEN { <<>> }
    ELSE LET shorter == FramesOf(L, n - 1)
         IN  shorter \cup
             UNION { { Append(f, x) :
                       x \in { y \in L : \A i \in 1..Len(f) : ~SameLap(f[i], y) } } :
                     f \in { g \in shorter : Len(g) = n - 1 } }

FramesUpTo(n) == FramesOf(CalcLaps, n)

\* Laps of two races in one frame, as the contract of
\* calculate_degradation_metrics allows.
RaceLaps ==
    { Lap(rr, d, 1, ln, lt, ln) :
        rr \in {1, 2}, d \in {"PER", "VER"}, ln \in {1, 2}, lt \in {NaN, 88, 90} }

RaceFrames == FramesOf(RaceLaps, MaxLaps) \ { <<>> }

\* What lap ln of a driver may be: in either stint, timed or not, with or
\* without tyre_life.
StintLaps(ln) ==
    { Lap(1, "VER", st, ln, lt, tl) :
        st \in {1, 2}, lt \in {NaN, 89, 90, 91}, tl \in {NaN, ln} }

\* The frames of laps 1..n of one driver in lap order, any lap left out, the
\* stint number never decreasing.
RECURSIVE StintFramesUpTo(_)
StintFramesUpTo(n) ==
    IF n = 0 THEN { <<>> }
    ELSE LET shorter == StintFramesUpTo(n - 1)
         IN  shorter \cup
             UNION { { Append(f, x) :
                       x \in { y \in StintLaps(n) :
                                 f = <<>> \/ f[Len(f)].stint <= y.stint } } :
                     f \in shorter }

StintFrames == StintFramesUpTo(MaxStintLaps) \ { <<>> }

CalcFrames == FramesUpTo(MaxLaps) \ { <<>> }

\* ------------------------------------------------------------------- state
VARIABLES
    data_dir,        \* the lap files main() finds (fixed over a behaviour)
    fk,              \* whether the schema declares foreign keys on fact tables
    db,              \* committed content of the store
    tx,              \* content seen by the open connection
    seq,             \* next value of each surrogate-id sequence
    pc,              \* position of main()
    runs,            \* number of runs of main() started
    file_idx,        \* index of the lap file being loaded
    chunk_start,     \* 0-based start of the current chunk
    row_idx,         \* 0-based index of the next row of the chunk
    race_map,        \* (year, race_round) -> race_id, per load
    driver_map,      \* (driver_code, year) -> driver_id, per load
    lap_data,        \* tuples prepared for the current batch
    weather_data,    \* weather tuples prepared for the current batch
    total_inserted,  \* the count the load reports
    faults,          \* batch writes refused so far
    pit_idx,         \* pit-stop files loaded in this run
    stints,          \* the triples calculate_all_stint_metrics fetched
    stint_idx,       \* triples of `stints` done
    \* History of the run, kept to state the properties (never read by the code).
    resolved,        \* (natural key, id) pairs the resolvers returned in this run
    accepted,        \* rows that reached lap_data, over all loads
    skipped,         \* rows of this load that took the except branch
    laps_before,     \* number of committed lap rows when this load began
    batch_commits,   \* which commits of the current batch were executed
    loads_begun,     \* lap files whose load this run began
    metrics_calls,   \* the triples calculate_stint_metrics was invoked on, this run
    run_log,         \* one record per finished run
    \* The collector's metric computation.
    calc_pc,         \* "call" before calculate_degradation_metrics, "return" or "raise" after
    frame,           \* the lap_data argument
    metrics,         \* the frame it returns
    \* A run of collect_season_data.
    season,          \* the races the provider lists for the year (their rounds)
    max_races,       \* the max_races argument (None when not given)
    season_pc,       \* position of collect_season_data
    schedule,        \* the local schedule, after the cap
    race_idx,        \* races of `schedule` the loop has finished
    all_lap_data,    \* the frames collected, one per race with lap data
    all_pit_data,    \* the pit-stop frames collected
    season_result,   \* the pair collect_season_data returns
    \* History of the collection run (never read by the code).
    net_log,         \* the external fetches and the sleeps, in order
    lap_ok,          \* round -> the session laps its lap collection returned
    pit_ok,          \* rounds whose pit-stop collection returned a frame
    processed        \* rounds whose loop iteration has finished, in order

vars == << data_dir, fk, db, tx, seq, pc, runs, file_idx, chunk_start, row_idx,
           race_map, driver_map, lap_data, weather_data, total_inserted, faults,
           pit_idx, stints, stint_idx, metrics_calls, resolved, accepted, skipped,
           laps_before, batch_commits, loads_begun, run_log, calc_pc, frame, metrics,
           season, max_races, season_pc, schedule, race_idx, all_lap_data,
           all_pit_data, season_result, net_log, lap_ok, pit_ok, processed >>

calc_vars == << calc_pc, frame, metrics >>

season_vars == << season, max_races, season_pc, schedule, race_idx, all_lap_data,
                  all_pit_data, season_result, net_log, lap_ok, pit_ok, processed >>

loader_vars == << data_dir, fk, db, tx, seq, pc, runs, file_idx, chunk_start, row_idx,
                  race_map, driver_map, lap_data, weather_data, total_inserted, faults,
                  pit_idx, stints, stint_idx, metrics_calls, resolved, accepted, skipped,
                  laps_before, batch_commits, loads_begun, run_log >>

loader_locals == << chunk_start, row_idx, race_map, driver_map, lap_data,
                    weather_data, total_inserted >>

EmptyStore ==
    [circuits |-> {}, races |-> {}, teams |-> {}, drivers |-> {},
     lap_times |-> {}, weather_conditions |-> {}, pit_stops |-> <<>>,
     stint_metrics |-> {}]

EmptyMap == [k \in {} |-> 0]

LoaderInit ==
    /\ db = EmptyStore
    /\ tx = EmptyStore
    /\ seq = [circuits |-> 1, races |-> 1, teams |-> 1, drivers |-> 1]
    /\ pc = "idle"
    /\ runs = 0
    /\ file_idx = 0
    /\ chunk_start = 0
    /\ row_idx = 0
    /\ race_map = EmptyMap
    /\ driver_map = EmptyMap
    /\ lap_data = <<>>
    /\ weather_data = <<>>
    /\ total_inserted = 0
    /\ faults = 0
    /\ pit_idx = 0
    /\ stints = <<>>
    /\ stint_idx = 0
    /\ metrics_calls = <<>>
    /\ resolved = [circuits |-> {}, races |-> {}, teams |-> {}, drivers |-> {}]
    /\ accepted = {}
    /\ skipped = 0
    /\ laps_before = 0
    /\ batch_commits = {}
    /\ loads_begun = 0
    /\ run_log = <<>>

CalcIdle ==
    /\ calc_pc = "idle"
    /\ frame = <<>>
    /\ metrics = <<>>

\* The locals and the history of a collection run before it starts.
SeasonLocalsInit ==
    /\ schedule = <<>>
    /\ race_idx = 0
    /\ all_lap_data = <<>>
    /\ all_pit_data = <<>>
    /\ season_result = [laps |-> <<>>, pits |-> <<>>]
    /\ net_log = <<>>
    /\ lap_ok = EmptyMap
    /\ pit_ok = {}
    /\ processed = <<>>

SeasonIdle ==
    /\ season = <<>>
    /\ max_races = None
    /\ season_pc = "idle"
    /\ SeasonLocalsInit

Init ==
    /\ data_dir \in DataDirs
    /\ fk \in BOOLEAN
    /\ LoaderInit
    /\ CalcIdle
    /\ SeasonIdle

\* ------------------------------------------------------- entity resolution
\* The result of a resolver call on connection state c = [tx, seq]:
\* ok = FALSE when the call raised.
Returned(c, id) == [ok |-> TRUE, id |-> id, tx |-> c.tx, seq |-> c.seq]

\* execute_query's except branch: the statement failed, the connection is
\* rolled back (every uncommitted write of the transaction is lost) and the
\* exception is raised again.
Raised(c) == [ok |-> FALSE, id |-> 0, tx |-> db, seq |-> c.seq]

\* psycopg2 adapts a float NaN as 'NaN'::float; PostgreSQL has no operator to
\* compare a text column with a double precision value, so a SELECT whose
\* text parameter is NaN fails.
QueryFails(text_param) == text_param = NaNs

\* result[0][0] of a SELECT returning the rows `found` on column `col`.
FirstId(found, col) ==
    LET ids == { r[col] : r \in found }
    IN  CHOOSE i \in ids : \A j \in ids : i <= j

get_or_create_circuit(c, circuit_name) ==
    IF QueryFails(circuit_name) THEN Raised(c)
    ELSE LET found == { r \in c.tx.circuits : r.circuit_name = circuit_name }
         IN  IF found # {} THEN Returned(c, FirstId(found, "circuit_id"))
             ELSE LET id == c.seq.circuits
                      row == [circuit_id |-> id, circuit_name |-> circuit_name]
                  IN  [ok |-> TRUE, id |-> id,
                       tx |-> [c.tx EXCEPT !.circuits = @ \cup {row}],
                       seq |-> [c.seq EXCEPT !.circuits = id + 1]]

get_or_create_team(c, team_name, year) ==
    IF QueryFails(team_name) THEN Raised(c)
    ELSE LET found == { r \in c.tx.teams : r.team_name = team_name /\ r.year = year }
         IN  IF found # {} THEN Returned(c, FirstId(found, "team_id"))
             ELSE LET id == c.seq.teams
                      row == [team_id |-> id, team_name |-> team_name, year |-> year]
                  IN  [ok |-> TRUE, id |-> id,
                       tx |-> [c.tx EXCEPT !.teams = @ \cup {row}],
                       seq |-> [c.seq EXCEPT !.teams = id + 1]]

get_or_create_driver(c, driver_code, year, team_id) ==
    IF QueryFails(driver_code) THEN Raised(c)
    ELSE LET found == { r \in c.tx.drivers : r.driver_code = driver_code /\ r.year = year }
         IN  IF found # {} THEN Returned(c, FirstId(found, "driver_id"))
             ELSE LET id == c.seq.drivers
                      row == [driver_id |-> id, driver_code |-> driver_code,
                              year |-> year, team_id |-> team_id]
                  IN  [ok |-> TRUE, id |-> id,
                       tx |-> [c.tx EXCEPT !.drivers = @ \cup {row}],
                       seq |-> [c.seq EXCEPT !.drivers = id + 1]]

get_or_create_race(c, year, race_round, circuit_id) ==
    LET found == { r \in c.tx.races : r.year = year /\ r.race_round = race_round }
    IN  IF found # {} THEN Returned(c, FirstId(found, "race_id"))
        ELSE LET id == c.seq.races
                 row == [race_id |-> id, year |-> year, race_round |-> race_round,
                         circuit_id |-> circuit_id]
             IN  [ok |-> TRUE, id |-> id,
                  tx |-> [c.tx EXCEPT !.races = @ \cup {row}],
                  seq |-> [c.seq EXCEPT !.races = id + 1]]

\* --------------------------------------------------------- one row of a load
NoResolutions == [circuits |-> {}, races |-> {}, teams |-> {}, drivers |-> {}]

\* Lines 188-205: the race of the row, from race_map or from the store.
\* int(NaN) raises ValueError before any query is sent.
RowRace(c, rm, row) ==
    IF ~pd_notna(row.year) \/ ~pd_notna(row.race_round)
    THEN [ok |-> FALSE, id |-> 0, tx |-> c.tx, seq |-> c.seq, race_map |-> rm,
          res |-> NoResolutions]
    ELSE LET race_key == << row.year, row.race_round >>
         IN  IF race_key \in DOMAIN rm
             THEN [ok |-> TRUE, id |-> rm[race_key], tx |-> c.tx, seq |-> c.seq,
                   race_map |-> rm, res |-> NoResolutions]
             ELSE LET ci == get_or_create_circuit(c, row.circuit_name)
                  IN  IF ~ci.ok
                      THEN [ok |-> FALSE, id |-> 0, tx |-> ci.tx, seq |-> ci.seq,
                            race_map |-> rm, res |-> NoResolutions]
                      ELSE LET ra == get_or_create_race([tx |-> ci.tx, seq |-> ci.seq],
                                                        row.year, row.race_round, ci.id)
                           IN  [ok |-> TRUE, id |-> ra.id, tx |-> ra.tx, seq |-> ra.seq,
                                race_map |-> (race_key :> ra.id) @@ rm,
                                res |-> [NoResolutions EXCEPT
                                           !.circuits = { << row.circuit_name, ci.id >> },
                                           !.races = { << race_key, ra.id >> }]]

\* Lines 207-219: the driver of the row, from driver_map or from the store
\* (the team is resolved first, only for a driver not yet in driver_map).
RowDriver(c, dm, row) ==
    LET driver_key == << row.driver, row.year >>
    IN  IF driver_key \in DOMAIN dm
        THEN [ok |-> TRUE, id |-> dm[driver_key], tx |-> c.tx, seq |-> c.seq,
              driver_map |-> dm, res |-> NoResolutions]
        ELSE LET te == get_or_create_team(c, row.team, row.year)
             IN  IF ~te.ok
                 THEN [ok |-> FALSE, id |-> 0, tx |-> te.tx, seq |-> te.seq,
                       driver_map |-> dm, res |-> NoResolutions]
                 ELSE LET dr == get_or_create_driver([tx |-> te.tx, seq |-> te.seq],
                                                     row.driver, row.year, te.id)
                          team_res == { << << row.team, row.year >>, te.id >> }
                      IN  IF ~dr.ok
                          THEN [ok |-> FALSE, id |-> 0, tx |-> dr.tx, seq |-> dr.seq,
                                driver_map |-> dm,
                                res |-> [NoResolutions EXCEPT !.teams = team_res]]
                          ELSE [ok |-> TRUE, id |-> dr.id, tx |-> dr.tx, seq |-> dr.seq,
                                driver_map |-> (driver_key :> dr.id) @@ dm,
                                res |-> [NoResolutions EXCEPT
                                           !.teams = team_res,
                                           !.drivers = { << driver_key, dr.id >> }]]

\* Lines 225-240: the tuple appended to lap_data.
LapTuple(race_id, driver_id, row) ==
    [race_id |-> race_id, driver_id |-> driver_id, lap_number |-> row.lap_number,
     lap_time_seconds |-> IF pd_notna(row.lap_time_seconds)
                          THEN row.lap_time_seconds ELSE None,
     stint_number |-> IF pd_notna(row.stint) THEN row.stint ELSE 1]

\* Lines 243-252: the tuple appended to weather_data.
WeatherTuple(race_id, row) ==
    [race_id |-> race_id, lap_number |-> row.lap_number, air_temp |-> row.air_temp]

MergeRes(a, b) ==
    [circuits |-> a.circuits \cup b.circuits, races |-> a.races \cup b.races,
     teams |-> a.teams \cup b.teams, drivers |-> a.drivers \cup b.drivers]

\* Lines 187-256: the body of the row loop.  ok = FALSE is the except branch
\* (the row is skipped); what was done before the exception stays done.
process_row(c, rm, dm, row) ==
    LET ra == RowRace(c, rm, row)
    IN  IF ~ra.ok
        THEN [ok |-> FALSE, tx |-> ra.tx, seq |-> ra.seq, race_map |-> ra.race_map,
              driver_map |-> dm, laps |-> <<>>, weather |-> <<>>, res |-> ra.res]
        ELSE LET dr == RowDriver([tx |-> ra.tx, seq |-> ra.seq], dm, row)
                 res == MergeRes(ra.res, dr.res)
             IN  IF ~dr.ok \/ ~pd_notna(row.lap_number)
                 THEN [ok |-> FALSE, tx |-> dr.tx, seq |-> dr.seq,
                       race_map |-> ra.race_map, driver_map |-> dr.driver_map,
                       laps |-> <<>>, weather |-> <<>>, res |-> res]
                 ELSE [ok |-> TRUE, tx |-> dr.tx, seq |-> dr.seq,
                       race_map |-> ra.race_map, driver_map |-> dr.driver_map,
                       laps |-> << LapTuple(ra.id, dr.id, row) >>,
                       weather |-> IF pd_notna(row.air_temp)
                                   THEN << WeatherTuple(ra.id, row) >> ELSE <<>>,
                       res |-> res]

\* ------------------------------------------------------------ batch writes
LapKey(t) == << t.race_id, t.driver_id, t.lap_number >>
WeatherKey(t) == << t.race_id, t.lap_number >>

\* The insert as an upsert (ON CONFLICT ... DO UPDATE): the last tuple with a
\* key replaces the row the table holds.
RECURSIVE InsertLaps_LastWins(_, _)
InsertLaps_LastWins(table, tuples) ==
    IF tuples = <<>> THEN table
    ELSE LET t == Head(tuples)
         IN  InsertLaps_LastWins({ r \in table : LapKey(r) # LapKey(t) } \cup {t},
                                 Tail(tuples))

\* INSERT ... ON CONFLICT (race_id, driver_id, lap_number) DO NOTHING, the
\* tuples taken in order: a tuple whose key the table holds is dropped.
RECURSIVE InsertLaps(_, _)
InsertLaps(table, tuples) ==
    IF tuples = <<>> THEN table
    ELSE LET t == Head(tuples)
         IN  InsertLaps(IF \E r \in table : LapKey(r) = LapKey(t)
                        THEN table ELSE table \cup {t},
                        Tail(tuples))

\* INSERT ... ON CONFLICT (race_id, lap_number) DO NOTHING.
RECURSIVE InsertWeather(_, _)
InsertWeather(table, tuples) ==
    IF tuples = <<>> THEN table
    ELSE LET t == Head(tuples)
         IN  InsertWeather(IF \E r \in table : WeatherKey(r) = WeatherKey(t)
                           THEN table ELSE table \cup {t},
                           Tail(tuples))

RaceIds(store) == { r.race_id : r \in store.races }
DriverIds(store) == { r.driver_id : r \in store.drivers }

\* With foreign keys declared, a tuple that is really inserted must refer to
\* rows the transaction sees.
LapsBreakForeignKey(store, tuples) ==
    /\ fk
    /\ \E i \in 1..Len(tuples) :
          /\ ~ \E r \in store.lap_times : LapKey(r) = LapKey(tuples[i])
          /\ \/ tuples[i].race_id \notin RaceIds(store)
             \/ tuples[i].driver_id \notin DriverIds(store)

WeatherBreaksForeignKey(store, tuples) ==
    /\ fk
    /\ \E i \in 1..Len(tuples) :
          /\ ~ \E r \in store.weather_conditions : WeatherKey(r) = WeatherKey(tuples[i])
          /\ tuples[i].race_id \notin RaceIds(store)

\* ------------------------------------------------------------------ actions
Min(a, b) == IF a <= b THEN a ELSE b

CurrentFile == data_dir[file_idx]
chunk_end == Min(chunk_start + chunk_size, Len(CurrentFile))

history == << resolved, accepted, skipped, laps_before, batch_commits, loads_begun,
             metrics_calls, run_log >>

post_pass == << pit_idx, stints, stint_idx >>

\* main(), lines 384-391: connect.
connect ==
    /\ pc = "idle"
    /\ runs < MaxRuns
    /\ runs' = runs + 1
    /\ pc' = "lap_files"
    /\ file_idx' = 0
    /\ tx' = db
    /\ loads_begun' = 0
    /\ pit_idx' = 0
    /\ stints' = <<>>
    /\ stint_idx' = 0
    /\ metrics_calls' = <<>>
    /\ resolved' = NoResolutions
    /\ UNCHANGED << data_dir, fk, db, seq, loader_locals, faults, accepted,
                    skipped, laps_before, batch_commits, run_log >>
    /\ UNCHANGED << calc_vars, season_vars >>

\* main() line 393-395 and load_lap_data_from_csv lines 166-177: the next
\* lap file is read and the load's local state is set up.
load_lap_data_from_csv ==
    /\ pc = "lap_files"
    /\ file_idx < Len(data_dir)
    /\ file_idx' = file_idx + 1
    /\ pc' = "rows"
    /\ race_map' = EmptyMap
    /\ driver_map' = EmptyMap
    /\ total_inserted' = 0
    /\ chunk_start' = 0
    /\ row_idx' = 0
    /\ lap_data' = <<>>
    /\ weather_data' = <<>>
    /\ skipped' = 0
    /\ laps_before' = Cardinality(db.lap_times)
    /\ batch_commits' = {}
    /\ loads_begun' = loads_begun + 1
    /\ UNCHANGED << data_dir, fk, db, tx, seq, runs, faults, post_pass, resolved,
                    accepted, metrics_calls, run_log >>
    /\ UNCHANGED << calc_vars, season_vars >>

\* Lines 186-256: one iteration of the row loop.
row_step ==
    /\ pc = "rows"
    /\ chunk_start < Len(CurrentFile)
    /\ chunk_start + row_idx < chunk_end
    /\ LET row == CurrentFile[chunk_start + row_idx + 1]
           out == process_row([tx |-> tx, seq |-> seq], race_map, driver_map, row)
       IN  /\ tx' = out.tx
           /\ seq' = out.seq
           /\ race_map' = out.race_map
           /\ driver_map' = out.driver_map
           /\ lap_data' = lap_data \o out.laps
           /\ weather_data' = weather_data \o out.weather
           /\ resolved' = MergeRes(resolved, out.res)
           /\ accepted' = IF out.ok THEN accepted \cup {row} ELSE accepted
           /\ skipped' = IF out.ok THEN skipped ELSE skipped + 1
    /\ row_idx' = row_idx + 1
    /\ UNCHANGED << data_dir, fk, db, pc, runs, file_idx, chunk_start, total_inserted,
                    faults, post_pass, laps_before, batch_commits, loads_begun,
                    metrics_calls, run_log >>
    /\ UNCHANGED << calc_vars, season_vars >>

RowsOfChunkDone ==
    /\ pc = "rows"
    /\ chunk_start < Len(CurrentFile)
    /\ chunk_start + row_idx = chunk_end

\* Lines 259-271: the batch insert of lap_data and its commit.
insert_laps ==
    /\ RowsOfChunkDone
    /\ lap_data # <<>>
    /\ ~LapsBreakForeignKey(tx, lap_data)
    /\ tx' = [tx EXCEPT !.lap_times = InsertLaps(@, lap_data)]
    /\ total_inserted' = total_inserted + Len(lap_data)
    /\ db' = tx'
    /\ batch_commits' = batch_commits \cup {"laps"}
    /\ pc' = "weather"
    /\ UNCHANGED << data_dir, fk, seq, runs, file_idx, chunk_start, row_idx, race_map,
                    driver_map, lap_data, weather_data, faults, post_pass, resolved,
                    accepted, skipped, laps_before, loads_begun, metrics_calls, run_log >>
    /\ UNCHANGED << calc_vars, season_vars >>

\* Line 259 with an empty lap_data: nothing is written.
insert_laps_none ==
    /\ RowsOfChunkDone
    /\ lap_data = <<>>
    /\ pc' = "weather"
    /\ UNCHANGED << data_dir, fk, db, tx, seq, runs, file_idx, loader_locals, faults,
                    post_pass, history >>
    /\ UNCHANGED << calc_vars, season_vars >>

\* Line 269 raises: a foreign key is violated, or the database refuses the
\* write.  Nothing catches the exception before main().
insert_laps_raises ==
    /\ RowsOfChunkDone
    /\ lap_data # <<>>
    /\ \/ LapsBreakForeignKey(tx, lap_data) /\ faults' = faults
       \/ faults < MaxFaults /\ faults' = faults + 1
    /\ pc' = "except"
    /\ UNCHANGED << data_dir, fk, db, tx, seq, runs, file_idx, loader_locals, post_pass,
                    history >>
    /\ UNCHANGED << calc_vars, season_vars >>

\* Lines 274-285: the batch insert of weather_data and its commit, then the
\* next chunk.
insert_weather ==
    /\ pc = "weather"
    /\ weather_data # <<>>
    /\ ~WeatherBreaksForeignKey(tx, weather_data)
    /\ tx' = [tx EXCEPT !.weather_conditions = InsertWeather(@, weather_data)]
    /\ db' = tx'
    /\ batch_commits' = {}
    /\ pc' = "rows"
    /\ chunk_start' = chunk_start + chunk_size
    /\ row_idx' = 0
    /\ lap_data' = <<>>
    /\ weather_data' = <<>>
    /\ UNCHANGED << data_dir, fk, seq, runs, file_idx, race_map, driver_map,
                    total_inserted, faults, post_pass, resolved, accepted, skipped,
                    laps_before, loads_begun, metrics_calls, run_log >>
    /\ UNCHANGED << calc_vars, season_vars >>

insert_weather_none ==
    /\ pc = "weather"
    /\ weather_data = <<>>
    /\ batch_commits' = {}
    /\ pc' = "rows"
    /\ chunk_start' = chunk_start + chunk_size
    /\ row_idx' = 0
    /\ lap_data' = <<>>
    /\ UNCHANGED << data_dir, fk, db, tx, seq, runs, file_idx, race_map, driver_map,
                    weather_data, total_inserted, faults, post_pass, resolved, accepted,
                    skipped, laps_before, loads_begun, metrics_calls, run_log >>
    /\ UNCHANGED << calc_vars, season_vars >>

\* Line 282 raises.
insert_weather_raises ==
    /\ pc = "weather"
    /\ weather_data # <<>>
    /\ \/ WeatherBreaksForeignKey(tx, weather_data) /\ faults' = faults
       \/ faults < MaxFaults /\ faults' = faults + 1
    /\ pc' = "except"
    /\ UNCHANGED << data_dir, fk, db, tx, seq, runs, file_idx, loader_locals, post_pass,
                    history >>
    /\ UNCHANGED << calc_vars, season_vars >>

\* Line 287: the load reports total_inserted and returns to main().
load_returns ==
    /\ pc = "rows"
    /\ chunk_start >= Len(CurrentFile)
    /\ pc' = "lap_files"
    /\ UNCHANGED << data_dir, fk, db, tx, seq, runs, file_idx, loader_locals, faults,
                    post_pass, history >>
    /\ UNCHANGED << calc_vars, season_vars >>

\* main() line 398: every lap file is loaded, the pit-stop files are next.
lap_files_done ==
    /\ pc = "lap_files"
    /\ file_idx = Len(data_dir)
    /\ pc' = "pit_files"
    /\ UNCHANGED << data_dir, fk, db, tx, seq, runs, file_idx, loader_locals, faults,
                    post_pass, history >>
    /\ UNCHANGED << calc_vars, season_vars >>

\* load_pit_data_from_csv lines 297-331: the row loop, from connection
\* content t with pit_data = acc.
RECURSIVE PitRowLoop(_, _, _)
PitRowLoop(t, rows, acc) ==
    IF rows = <<>> THEN [tx |-> t, pit_data |-> acc]
    ELSE LET row == Head(rows)
             races == { r \in t.races : r.year = row.year /\ r.race_round = row.race_round }
             drivers == { r \in t.drivers : r.driver_code = row.driver /\ r.year = row.year }
         IN  IF races = {} THEN PitRowLoop(t, Tail(rows), acc)
             ELSE IF QueryFails(row.driver) THEN PitRowLoop(db, Tail(rows), acc)
             ELSE IF drivers = {} THEN PitRowLoop(t, Tail(rows), acc)
             ELSE PitRowLoop(t, Tail(rows),
                             Append(acc, [race_id |-> FirstId(races, "race_id"),
                                          driver_id |-> FirstId(drivers, "driver_id"),
                                          lap_number |-> row.lap]))

\* With foreign keys declared, a pit-stop tuple must refer to rows the
\* transaction sees.
PitsBreakForeignKey(store, tuples) ==
    /\ fk
    /\ \E i \in 1..Len(tuples) :
          \/ tuples[i].race_id \notin RaceIds(store)
          \/ tuples[i].driver_id \notin DriverIds(store)

\* main() lines 400-402 and load_pit_data_from_csv: one pit-stop file.  The
\* insert of line 340 has no conflict clause; when it raises, nothing
\* catches the exception before main().
load_pit_data_from_csv ==
    /\ pc = "pit_files"
    /\ pit_idx < Len(pit_files)
    /\ LET out == PitRowLoop(tx, pit_files[pit_idx + 1], <<>>)
       IN  IF out.pit_data = <<>>
           THEN /\ tx' = out.tx
                /\ db' = db
                /\ pc' = pc
           ELSE IF PitsBreakForeignKey(out.tx, out.pit_data)
           THEN /\ tx' = out.tx
                /\ db' = db
                /\ pc' = "except"
           ELSE /\ tx' = [out.tx EXCEPT !.pit_stops = @ \o out.pit_data]
                /\ db' = tx'
                /\ pc' = pc
    /\ pit_idx' = pit_idx + 1
    /\ UNCHANGED << data_dir, fk, seq, runs, file_idx, loader_locals, faults, stints,
                    stint_idx, history >>
    /\ UNCHANGED << calc_vars, season_vars >>

\* ORDER BY race_id, driver_id, stint_number.
TripleLess(a, b) ==
    \/ a[1] < b[1]
    \/ a[1] = b[1] /\ a[2] < b[2]
    \/ a[1] = b[1] /\ a[2] = b[2] /\ a[3] < b[3]

RECURSIVE SortTriples(_)
SortTriples(S) ==
    IF S = {} THEN <<>>
    ELSE LET m == CHOOSE x \in S : \A y \in S \ {x} : TripleLess(x, y)
         IN  << m >> \o SortTriples(S \ {m})

\* calculate_all_stint_metrics lines 349-355: SELECT DISTINCT race_id,
\* driver_id, stint_number FROM lap_times.
calculate_all_stint_metrics ==
    /\ pc = "pit_files"
    /\ pit_idx = Len(pit_files)
    /\ stints' = SortTriples({ << r.race_id, r.driver_id, r.stint_number >> :
                               r \in tx.lap_times })
    /\ stint_idx' = 0
    /\ pc' = "stints"
    /\ UNCHANGED << data_dir, fk, db, tx, seq, runs, file_idx, loader_locals, faults,
                    pit_idx, history >>
    /\ UNCHANGED << calc_vars, season_vars >>

\* Lines 357-363: calculate_stint_metrics on the next triple, committed.
stint_metrics_ok ==
    /\ pc = "stints"
    /\ stint_idx < Len(stints)
    /\ tx' = [tx EXCEPT !.stint_metrics = @ \cup { stints[stint_idx + 1] }]
    /\ db' = tx'
    /\ stint_idx' = stint_idx + 1
    /\ metrics_calls' = Append(metrics_calls, stints[stint_idx + 1])
    /\ UNCHANGED << data_dir, fk, seq, pc, runs, file_idx, loader_locals, faults,
                    pit_idx, stints, resolved, accepted, skipped, laps_before,
                    batch_commits, loads_begun, run_log >>
    /\ UNCHANGED << calc_vars, season_vars >>

\* A failure of calculate_stint_metrics ends the pass instead of moving to
\* the next triple.
stint_metrics_raises_ends_pass ==
    /\ pc = "stints"
    /\ stint_idx < Len(stints)
    /\ faults < MaxFaults
    /\ faults' = faults + 1
    /\ tx' = db
    /\ stint_idx' = Len(stints)
    /\ metrics_calls' = Append(metrics_calls, stints[stint_idx + 1])
    /\ UNCHANGED << data_dir, fk, db, seq, pc, runs, file_idx, loader_locals,
                    pit_idx, stints, resolved, accepted, skipped, laps_before,
                    batch_commits, loads_begun, run_log >>
    /\ UNCHANGED << calc_vars, season_vars >>

\* Lines 364-366: calculate_stint_metrics raised; rollback, next triple.
stint_metrics_raises ==
    /\ pc = "stints"
    /\ stint_idx < Len(stints)
    /\ faults < MaxFaults
    /\ faults' = faults + 1
    /\ tx' = db
    /\ stint_idx' = stint_idx + 1
    /\ metrics_calls' = Append(metrics_calls, stints[stint_idx + 1])
    /\ UNCHANGED << data_dir, fk, db, seq, pc, runs, file_idx, loader_locals,
                    pit_idx, stints, resolved, accepted, skipped, laps_before,
                    batch_commits, loads_begun, run_log >>
    /\ UNCHANGED << calc_vars, season_vars >>

\* Lines 368 and 407: the post-pass is over, main() completes.
stint_metrics_done ==
    /\ pc = "stints"
    /\ stint_idx = Len(stints)
    /\ pc' = "complete"
    /\ UNCHANGED << data_dir, fk, db, tx, seq, runs, file_idx, loader_locals, faults,
                    post_pass, history >>
    /\ UNCHANGED << calc_vars, season_vars >>

\* main() lines 409-414 and disconnect(): the connection is closed, its
\* uncommitted writes are lost.
disconnect ==
    /\ pc \in {"complete", "except"}
    /\ tx' = db
    /\ run_log' = Append(run_log, [ok |-> pc = "complete", loads_begun |-> loads_begun,
                                   pits_begun |-> pit_idx, store |-> db])
    /\ pc' = "idle"
    /\ UNCHANGED << data_dir, fk, db, seq, runs, file_idx, loader_locals, faults,
                    post_pass, resolved, accepted, skipped, laps_before, batch_commits,
                    loads_begun, metrics_calls >>
    /\ UNCHANGED << calc_vars, season_vars >>

Next ==
    \/ connect
    \/ load_lap_data_from_csv
    \/ row_step
    \/ insert_laps
    \/ insert_laps_none
    \/ insert_laps_raises
    \/ insert_weather
    \/ insert_weather_none
    \/ insert_weather_raises
    \/ load_returns
    \/ lap_files_done
    \/ load_pit_data_from_csv
    \/ calculate_all_stint_metrics
    \/ stint_metrics_ok
    \/ stint_metrics_raises
    \/ stint_metrics_done
    \/ disconnect

Spec == Init /\ [][Next]_vars

\* ------------------------------------------- calculate_degradation_metrics
\* The order of driver codes (strings compare by their characters).
CodeRank(d) == IF d = "PER" THEN 1 ELSE 2

\* The order of sort_values(['driver', 'stint', 'lap_number']).
SortKeyLess(a, b) ==
    \/ CodeRank(a.driver) < CodeRank(b.driver)
    \/ a.driver = b.driver /\ a.stint < b.stint
    \/ a.driver = b.driver /\ a.stint = b.stint /\ a.lap_number < b.lap_number

\* Line 218: a sort on several columns is stable, rows with equal keys keep
\* the order of the frame.
RECURSIVE sort_values(_)
sort_values(df) ==
    IF df = <<>> THEN <<>>
    ELSE LET n == Len(df)
             x == df[n]
             s == sort_values(SubSeq(df, 1, n - 1))
             k == Cardinality({ i \in 1..Len(s) : ~SortKeyLess(x, s[i]) })
         IN  SubSeq(s, 1, k) \o << x >> \o SubSeq(s, k + 1, Len(s))

\* Line 221: the positions of the group of row i under
\* groupby(['driver', 'stint']).
stint_group(df, i) ==
    { j \in 1..Len(df) : df[j].driver = df[i].driver /\ df[j].stint = df[i].stint }

SetMin(S) == CHOOSE m \in S : \A x \in S : m <= x

\* Line 224: transform('first') gives every row the first value of its group
\* that is not NaN, NaN when the group has none.
transform_first(df, i) ==
    LET present == { j \in stint_group(df, i) : pd_notna(df[j].lap_time_seconds) }
    IN  IF present = {} THEN NaN ELSE df[SetMin(present)].lap_time_seconds

\* Lines 227-229: a difference with a NaN operand is NaN.
time_delta(lap_time, first) ==
    IF pd_notna(lap_time) /\ pd_notna(first) THEN lap_time - first ELSE NaN

\* Computed lap times are exact fractions << numerator, denominator >> in
\* lowest terms with a positive denominator; a computed NaN is NaNq.
RECURSIVE GCD(_, _)
GCD(a, b) == IF b = 0 THEN a ELSE GCD(b, a % b)

Abs(x) == IF x < 0 THEN -x ELSE x

NaNq == << 0, 0 >>

Rat(n, d) ==
    IF d = 0 THEN NaNq
    ELSE LET g == GCD(Abs(n), Abs(d))
             s == IF d < 0 THEN -1 ELSE 1
         IN  << (s * n) \div g, (s * d) \div g >>

RECURSIVE SumF(_, _)
SumF(f, S) ==
    IF S = {} THEN 0
    ELSE LET x == CHOOSE y \in S : TRUE IN f[x] + SumF(f, S \ {x})

\* Line 233: x.rolling(3, min_periods=1).mean() within the group of row i,
\* the mean of the lap times that are not NaN among the row and the two rows
\* of the group before it, NaN when there is none.
rolling_mean(df, i) ==
    LET G == stint_group(df, i)
        window == { j \in G : j <= i /\ Cardinality({ k \in G : j <= k /\ k <= i }) <= 3 }
        present == { j \in window : pd_notna(df[j].lap_time_seconds) }
    IN  IF present = {} THEN NaNq
        ELSE Rat(SumF([ j \in present |-> df[j].lap_time_seconds ], present),
                 Cardinality(present))

\* Line 243: the rows of the group of row i that dropna() keeps.
valid_pairs(df, i) ==
    { j \in stint_group(df, i) :
        pd_notna(df[j].tyre_life) /\ pd_notna(df[j].lap_time_seconds) }

\* scipy.stats.linregress refuses x values that are all identical
\* (ValueError).
linregress_raises(df, V) == Cardinality({ df[j].tyre_life : j \in V }) = 1

\* Line 248: the slope linregress returns, the least-squares slope of
\* lap_time_seconds on tyre_life over the rows V.
linregress_slope(df, V) ==
    LET n == Cardinality(V)
        sx == SumF([ j \in V |-> df[j].tyre_life ], V)
        sy == SumF([ j \in V |-> df[j].lap_time_seconds ], V)
        sxy == SumF([ j \in V |-> df[j].tyre_life * df[j].lap_time_seconds ], V)
        sxx == SumF([ j \in V |-> df[j].tyre_life * df[j].tyre_life ], V)
    IN  Rat(n * sxy - sx * sy, n * sxx - sx * sx)

\* Lines 237-249: the value calc_degradation_rate gives the rows of the
\* group of row i.
calc_degradation_rate(df, i) ==
    IF Cardinality(stint_group(df, i)) < 2 THEN Rat(0, 1)
    ELSE IF Cardinality(valid_pairs(df, i)) < 2 THEN Rat(0, 1)
    ELSE linregress_slope(df, valid_pairs(df, i))

\* Line 248 raises for the group of row i.
calc_degradation_rate_raises(df, i) ==
    /\ Cardinality(stint_group(df, i)) >= 2
    /\ Cardinality(valid_pairs(df, i)) >= 2
    /\ linregress_raises(df, valid_pairs(df, i))

\* Line 251: when the frame has a single group, apply() returns a frame of
\* one row (the group) and one column per lap, .values has length 1, and the
\* assignment to the column raises ValueError unless the frame has one lap.
apply_values_mismatch(df) ==
    /\ Cardinality({ << df[i].driver, df[i].stint >> : i \in 1..Len(df) }) = 1
    /\ Len(df) # 1

\* Line 221: groupby leaves out the laps whose driver or stint is NaN, so
\* apply() returns fewer values than the frame has laps and the assignment of
\* line 251 raises ValueError.
nan_group_key(df) ==
    \E i \in 1..Len(df) : df[i].driver = NaNs \/ ~pd_notna(df[i].stint)

\* The call raises instead of returning a frame.
degradation_metrics_raises(df) ==
    \/ nan_group_key(df)
    \/ \E i \in 1..Len(df) : calc_degradation_rate_raises(sort_values(df), i)
    \/ apply_values_mismatch(df)

\* Lines 214-253: the frame returned, sorted, with the computed columns.
degradation_metrics(df) ==
    LET sorted == sort_values(df)
    IN  [ i \in 1..Len(sorted) |->
            [race_round |-> sorted[i].race_round,
             driver |-> sorted[i].driver,
             stint |-> sorted[i].stint,
             lap_number |-> sorted[i].lap_number,
             lap_time_seconds |-> sorted[i].lap_time_seconds,
             tyre_life |-> sorted[i].tyre_life,
             stint_first_lap_time |-> transform_first(sorted, i),
             time_delta_from_first |-> time_delta(sorted[i].lap_time_seconds,
                                                  transform_first(sorted, i)),
             lap_time_rolling_avg |-> rolling_mean(sorted, i),
             degradation_rate |-> calc_degradation_rate(sorted, i)] ]

\* A call of calculate_degradation_metrics on the laps of one race.
InitCalc ==
    /\ data_dir = <<>>
    /\ fk = FALSE
    /\ LoaderInit
    /\ SeasonIdle
    /\ calc_pc = "call"
    /\ frame \in CalcFrames
    /\ metrics = <<>>

calculate_degradation_metrics ==
    /\ calc_pc = "call"
    /\ ~degradation_metrics_raises(frame)
    /\ metrics' = degradation_metrics(frame)
    /\ calc_pc' = "return"
    /\ UNCHANGED << frame, loader_vars, season_vars >>

\* The call ends with the exception of line 248 or of line 251.
calculate_degradation_metrics_raises ==
    /\ calc_pc = "call"
    /\ degradation_metrics_raises(frame)
    /\ calc_pc' = "raise"
    /\ UNCHANGED << frame, metrics, loader_vars, season_vars >>

NextCalc ==
    \/ calculate_degradation_metrics
    \/ calculate_degradation_metrics_raises

SpecCalc == InitCalc /\ [][NextCalc]_vars

\* A call of calculate_degradation_metrics on laps of one or two races.
InitRaces ==
    /\ data_dir = <<>>
    /\ fk = FALSE
    /\ LoaderInit
    /\ SeasonIdle
    /\ calc_pc = "call"
    /\ frame \in RaceFrames
    /\ metrics = <<>>

SpecRaces == InitRaces /\ [][NextCalc]_vars

\* A call of calculate_degradation_metrics on the stints of one driver.
InitStint ==
    /\ data_dir = <<>>
    /\ fk = FALSE
    /\ LoaderInit
    /\ SeasonIdle
    /\ calc_pc = "call"
    /\ frame \in StintFrames
    /\ metrics = <<>>

SpecStint == InitStint /\ [][NextCalc]_vars

\* -------------------------------------------------------- collect_season_data
\* The laps of the race session of round r as FastF1 gives them: two drivers,
\* one lap without a lap time and one with a lap time of 0.
Session(r) ==
    << Lap(r, "VER", 1, 1, 90, 1), Lap(r, "VER", 1, 2, 91, 2), Lap(r, "VER", 1, 3, 0, 3),
       Lap(r, "PER", 1, 1, 88, 1), Lap(r, "PER", 1, 2, NaN, 2) >>

\* A session whose timed laps are one stint of one driver.
SingleStintSession(r) ==
    << Lap(r, "VER", 1, 1, 90, 1), Lap(r, "VER", 1, 2, 91, 2),
       Lap(r, "PER", 1, 1, NaN, 1) >>

\* A session with a timed lap that has no stint number.
NoStintSession(r) ==
    << Lap(r, "VER", 1, 1, 90, 1), Lap(r, "PER", 1, 1, 88, 1),
       Lap(r, "PER", NaN, 2, 89, 2) >>

\* What session.laps may be for round r.
Sessions(r) == { Session(r), SingleStintSession(r), NoStintSession(r) }

\* Lines 133-134: dropna(subset=['lap_time_seconds']) and lap_time_seconds > 0.
clean(laps) ==
    SelectSeq(laps, LAMBDA x : pd_notna(x.lap_time_seconds) /\ x.lap_time_seconds > 0)

\* Lines 158-171: the pit stops of round r.
PitStops(r) == << [race_round |-> r, driver |-> "max_verstappen", lap |-> 2] >>

\* Lines 265-266: `if max_races:` is false for None and for 0.
apply_max_races(s, m) ==
    IF m # None /\ m # 0 THEN SubSeq(s, 1, Min(m, Len(s))) ELSE s

\* pd.concat(frames, ignore_index=True).
RECURSIVE concat(_)
concat(frames) ==
    IF frames = <<>> THEN <<>> ELSE Head(frames) \o concat(Tail(frames))

\* A call of collect_season_data(year, max_races) for a season of up to
\* MaxRaces races.
InitSeason ==
    /\ data_dir = <<>>
    /\ fk = FALSE
    /\ LoaderInit
    /\ CalcIdle
    /\ season \in { [ i \in 1..n |-> i ] : n \in 0..MaxRaces }
    /\ max_races \in {None} \cup (0..MaxRaces)
    /\ season_pc = "start"
    /\ SeasonLocalsInit

\* Lines 39-63 and 259-266: the schedule is fetched after the rate-limit
\* sleep; an empty schedule ends the run, otherwise the cap is applied.
get_season_schedule ==
    /\ season_pc = "start"
    /\ net_log' = net_log \o << "sleep", "get schedule" >>
    /\ IF season = <<>>
       THEN /\ season_pc' = "return"
            /\ UNCHANGED schedule
       ELSE /\ schedule' = apply_max_races(season, max_races)
            /\ season_pc' = "laps"
    /\ UNCHANGED << season, max_races, race_idx, all_lap_data, all_pit_data,
                    season_result, lap_ok, pit_ok, processed >>
    /\ UNCHANGED << loader_vars, calc_vars >>

\* Lines 65-67 and 261-263: the fetch fails, get_season_schedule returns [],
\* collect_season_data returns two empty frames.
get_season_schedule_fails ==
    /\ season_pc = "start"
    /\ net_log' = net_log \o << "sleep", "get schedule" >>
    /\ season_pc' = "return"
    /\ UNCHANGED << season, max_races, schedule, race_idx, all_lap_data, all_pit_data,
                    season_result, lap_ok, pit_ok, processed >>
    /\ UNCHANGED << loader_vars, calc_vars >>

\* Lines 277-290 and 73-137: the session of the next race is loaded (no sleep
\* before it), cleaned, its metrics computed and the frame collected.
collect_race_lap_data ==
    /\ season_pc = "laps"
    /\ race_idx < Len(schedule)
    /\ \E laps \in Sessions(schedule[race_idx + 1]) :
          /\ ~degradation_metrics_raises(clean(laps))
          /\ all_lap_data' = Append(all_lap_data, degradation_metrics(clean(laps)))
          /\ lap_ok' = lap_ok @@ (schedule[race_idx + 1] :> laps)
    /\ net_log' = Append(net_log, "load session")
    /\ season_pc' = "pits"
    /\ UNCHANGED << season, max_races, schedule, race_idx, all_pit_data, season_result,
                    pit_ok, processed >>
    /\ UNCHANGED << loader_vars, calc_vars >>

\* Lines 277-289: the session is loaded and cleaned, and
\* calculate_degradation_metrics raises; line 289 is outside every try, the
\* exception leaves collect_season_data.
collect_season_data_raises ==
    /\ season_pc = "laps"
    /\ race_idx < Len(schedule)
    /\ \E laps \in Sessions(schedule[race_idx + 1]) :
          degradation_metrics_raises(clean(laps))
    /\ net_log' = Append(net_log, "load session")
    /\ season_pc' = "raise"
    /\ UNCHANGED << season, max_races, schedule, race_idx, all_lap_data, all_pit_data,
                    season_result, lap_ok, pit_ok, processed >>
    /\ UNCHANGED << loader_vars, calc_vars >>

\* Lines 83-85 and 139-141: the session has no laps, or loading it raised:
\* collect_race_lap_data returns None and the race has no lap frame.
collect_race_lap_data_none ==
    /\ season_pc = "laps"
    /\ race_idx < Len(schedule)
    /\ net_log' = Append(net_log, "load session")
    /\ season_pc' = "pits"
    /\ UNCHANGED << season, max_races, schedule, race_idx, all_lap_data, all_pit_data,
                    season_result, lap_ok, pit_ok, processed >>
    /\ UNCHANGED << loader_vars, calc_vars >>

\* Lines 293-298 and 146-171: the pit stops of the race are fetched after the
\* rate-limit sleep and collected; the iteration ends with sleep(2).
collect_pit_stop_data ==
    /\ season_pc = "pits"
    /\ net_log' = net_log \o << "sleep", "get pitstops", "sleep 2" >>
    /\ all_pit_data' = Append(all_pit_data, PitStops(schedule[race_idx + 1]))
    /\ pit_ok' = pit_ok \cup { schedule[race_idx + 1] }
    /\ processed' = Append(processed, schedule[race_idx + 1])
    /\ race_idx' = race_idx + 1
    /\ season_pc' = "laps"
    /\ UNCHANGED << season, max_races, schedule, all_lap_data, season_result, lap_ok >>
    /\ UNCHANGED << loader_vars, calc_vars >>

\* Lines 155-156 and 173-175: the race has no pit stops, or the fetch raised:
\* collect_pit_stop_data returns None.
collect_pit_stop_data_none ==
    /\ season_pc = "pits"
    /\ net_log' = net_log \o << "sleep", "get pitstops", "sleep 2" >>
    /\ processed' = Append(processed, schedule[race_idx + 1])
    /\ race_idx' = race_idx + 1
    /\ season_pc' = "laps"
    /\ UNCHANGED << season, max_races, schedule, all_lap_data, all_pit_data,
                    season_result, lap_ok, pit_ok >>
    /\ UNCHANGED << loader_vars, calc_vars >>

\* Lines 300-314: the loop is over, the frames are combined and returned.
collect_season_data_returns ==
    /\ season_pc = "laps"
    /\ race_idx = Len(schedule)
    /\ season_result' = [laps |-> concat(all_lap_data), pits |-> concat(all_pit_data)]
    /\ season_pc' = "return"
    /\ UNCHANGED << season, max_races, schedule, race_idx, all_lap_data, all_pit_data,
                    net_log, lap_ok, pit_ok, processed >>
    /\ UNCHANGED << loader_vars, calc_vars >>

NextSeason ==
    \/ get_season_schedule
    \/ get_season_schedule_fails
    \/ collect_race_lap_data
    \/ collect_season_data_raises
    \/ collect_race_lap_data_none
    \/ collect_pit_stop_data
    \/ collect_pit_stop_data_none
    \/ collect_season_data_returns

SpecSeason == InitSeason /\ [][NextSeason]_vars

\* A direct call of get_race_results(year, round); collect_season_data and
\* main() never call it.
InitResults ==
    /\ data_dir = <<>>
    /\ fk = FALSE
    /\ LoaderInit
    /\ CalcIdle
    /\ season \in { [ i \in 1..n |-> i ] : n \in 1..MaxRaces }
    /\ max_races = None
    /\ season_pc = "results"
    /\ SeasonLocalsInit

\* The results of round r, lines 192-208.
Results(r) == << [race_round |-> r, position |-> 1, driver |-> "max_verstappen"] >>

\* Lines 177-212: the results of a round are fetched after the rate-limit
\* sleep; the frame is returned, or None when the provider has no results
\* for the round or the fetch raised.
get_race_results ==
    /\ season_pc = "results"
    /\ net_log' = net_log \o << "sleep", "get results" >>
    /\ \E r \in { season[i] : i \in 1..Len(season) } :
          \E ok \in BOOLEAN :
             season_result' = [laps |-> <<>>,
                               pits |-> IF ok THEN Results(r) ELSE <<>>]
    /\ season_pc' = "return"
    /\ UNCHANGED << season, max_races, schedule, race_idx, all_lap_data, all_pit_data,
                    lap_ok, pit_ok, processed >>
    /\ UNCHANGED << loader_vars, calc_vars >>

SpecResults == InitResults /\ [][get_race_results]_vars

\* ------------------------------------------------------------------ claims
Counts(store) ==
    [circuits |-> Cardinality(store.circuits), teams |-> Cardinality(store.teams),
     drivers |-> Cardinality(store.drivers), races |-> Cardinality(store.races),
     lap_times |-> Cardinality(store.lap_times),
     weather_conditions |-> Cardinality(store.weather_conditions)]

\* C1: a data directory with one lap file, loaded by two runs that both
\* complete: the store after the second run has the same row counts in
\* lap_times, weather_conditions, circuits, teams, drivers and races as after
\* the first.
C1_SecondLoadKeepsCounts ==
    (Len(data_dir) = 1 /\ Len(run_log) >= 2 /\ run_log[1].ok /\ run_log[2].ok)
        => Counts(run_log[2].store) = Counts(run_log[1].store)

\* C2: lap_times holds at most one row per (race_id, driver_id, lap_number);
\* a committed row is never changed or removed by a later step; and when a
\* batch is written, the row stored for a key the table did not hold is the
\* first tuple of the batch with that key.
C2_UniqueKeys(store) ==
    \A r1, r2 \in store.lap_times : LapKey(r1) = LapKey(r2) => r1 = r2

C2_FirstWriteWins ==
    [][ /\ C2_UniqueKeys(db')
        /\ \A r \in db.lap_times : r \in db'.lap_times
        /\ (RowsOfChunkDone /\ pc' = "weather") =>
              \A i \in 1..Len(lap_data) :
                 ( /\ ~ \E r \in db.lap_times : LapKey(r) = LapKey(lap_data[i])
                   /\ ~ \E j \in 1..(i - 1) : LapKey(lap_data[j]) = LapKey(lap_data[i]) )
                 => lap_data[i] \in db'.lap_times
      ]_vars

\* C2 witness: in a second run, a batch was written that held a tuple whose
\* key the table holds with other values.
C2_Witness ==
    /\ runs = 2
    /\ pc = "weather"
    /\ "laps" \in batch_commits
    /\ \E i \in 1..Len(lap_data) :
          \E r \in db.lap_times : LapKey(r) = LapKey(lap_data[i]) /\ r # lap_data[i]

\* C3: within one run the resolvers never return two ids for one natural
\* key, and no dimension table the connection sees holds two rows with one
\* natural key.
OneIdPerKey(pairs) == \A p, q \in pairs : p[1] = q[1] => p[2] = q[2]

C3_SameKeySameId ==
    /\ OneIdPerKey(resolved.circuits)
    /\ OneIdPerKey(resolved.races)
    /\ OneIdPerKey(resolved.teams)
    /\ OneIdPerKey(resolved.drivers)
    /\ \A a, b \in tx.circuits : a.circuit_name = b.circuit_name => a = b
    /\ \A a, b \in tx.races : (a.year = b.year /\ a.race_round = b.race_round) => a = b
    /\ \A a, b \in tx.teams : (a.team_name = b.team_name /\ a.year = b.year) => a = b
    /\ \A a, b \in tx.drivers : (a.driver_code = b.driver_code /\ a.year = b.year) => a = b

\* A row a lap load has no reason to skip: every key and the lap number are
\* present.
ValidRow(row) ==
    /\ pd_notna(row.year)
    /\ pd_notna(row.race_round)
    /\ row.circuit_name # NaNs
    /\ row.driver # NaNs
    /\ row.team # NaNs
    /\ pd_notna(row.lap_number)

ChunkRows == { CurrentFile[i] : i \in (chunk_start + 1)..chunk_end }

\* C4: as long as the database refuses no write of its own, a bad row never
\* aborts a lap batch, and once the batch is written every valid row of the
\* chunk has its lap row in the store.
C4_BadRowNeverAbortsBatch ==
    faults = 0 =>
        /\ ~(pc = "except" /\ pit_idx = 0)
        /\ pc = "weather" =>
              \A row \in ChunkRows :
                 ValidRow(row) =>
                    \E r \in db.lap_times :
                       /\ r.race_id = race_map[<< row.year, row.race_round >>]
                       /\ r.driver_id = driver_map[<< row.driver, row.year >>]
                       /\ r.lap_number = row.lap_number

\* C5: no committed lap row has an absent or non-positive lap_time_seconds.
C5_NoInvalidLapTimePersisted ==
    \A r \in db.lap_times : r.lap_time_seconds # None /\ r.lap_time_seconds > 0

\* C6: when a load returns, the count it reports is the number of lap rows
\* it added to the store, and the rows of the file are the reported rows plus
\* the skipped rows.
C6_ReportedCountIsPersistedCount ==
    (pc = "lap_files" /\ file_idx > 0) =>
        /\ total_inserted = Cardinality(db.lap_times) - laps_before
        /\ Len(CurrentFile) = total_inserted + skipped

\* C7: every committed dimension row has a present natural key and belongs
\* to a row that was not skipped.
C7_NoDimensionRowForSkippedRow ==
    /\ \A c \in db.circuits :
          c.circuit_name # NaNs /\ \E row \in accepted : row.circuit_name = c.circuit_name
    /\ \A r \in db.races :
          pd_notna(r.year) /\ pd_notna(r.race_round)
          /\ \E row \in accepted : row.year = r.year /\ row.race_round = r.race_round
    /\ \A t \in db.teams :
          t.team_name # NaNs /\ \E row \in accepted : row.team = t.team_name /\ row.year = t.year
    /\ \A d \in db.drivers :
          d.driver_code # NaNs
          /\ \E row \in accepted : row.driver = d.driver_code /\ row.year = d.year

\* C8: when the write of a batch that holds lap tuples and weather tuples
\* fails, none of the fact rows of the batch is committed.
C8_BatchCommitsAllOrNothing ==
    (pc = "except" /\ pit_idx = 0 /\ lap_data # <<>> /\ weather_data # <<>>)
        => batch_commits = {}

\* C9: every run, also one in which a batch write failed, began the load of
\* every lap file and of every pit-stop file.
C9_EveryQueuedFileIsProcessed ==
    \A i \in 1..Len(run_log) :
        /\ run_log[i].loads_begun = Len(data_dir)
        /\ run_log[i].pits_begun = Len(pit_files)

\* The laps of the returned frame in the stint of lap m.
StintOf(m) == { x \in { metrics[i] : i \in 1..Len(metrics) } :
                  x.driver = m.driver /\ x.stint = m.stint }

\* Every lap of a frame carries, as stint_first_lap_time, the lap_time of the
\* lap with the lowest lap_number among the laps of its stint that have a
\* lap_time (NaN when the stint has none).
FirstIsLowestTimedLap ==
    \A i \in 1..Len(metrics) :
       LET timed == { x \in StintOf(metrics[i]) : pd_notna(x.lap_time_seconds) }
       IN  IF timed = {} THEN metrics[i].stint_first_lap_time = NaN
           ELSE \E x \in timed :
                   /\ \A y \in timed : x.lap_number <= y.lap_number
                   /\ metrics[i].stint_first_lap_time = x.lap_time_seconds

\* C10: every call returns a frame in which each lap of every stint carries,
\* as stint_first_lap_time, the lap_time of the stint's lowest-numbered lap
\* that has one (the first valid lap time), whatever the order of the input.
C10_FirstIsLowestTimedLap ==
    calc_pc # "call" => (calc_pc = "return" /\ FirstIsLowestTimedLap)

\* On the frames that are returned, the baseline is the first valid lap time
\* of the stint.
FirstIsLowestTimedLapOnReturn ==
    calc_pc = "return" => FirstIsLowestTimedLap

\* The laps of race rr in a frame, in the order of the frame.
RaceOnly(df, rr) == SelectSeq(df, LAMBDA x : x.race_round = rr)

\* C11: in a returned frame, the baseline, the rolling average and the
\* degradation rate of every lap are those of its stint within its own race:
\* they equal the values computed from the laps of that race alone, so no two
\* laps of different races share a stint group.
C11_StintGroupsWithinRace ==
    calc_pc = "return" =>
        \A rr \in {1, 2} :
           LET sub == sort_values(RaceOnly(frame, rr))
               out == RaceOnly(metrics, rr)
           IN  \A k \in 1..Len(sub) :
                  /\ out[k].stint_first_lap_time = transform_first(sub, k)
                  /\ out[k].lap_time_rolling_avg = rolling_mean(sub, k)
                  /\ out[k].degradation_rate = calc_degradation_rate(sub, k)

\* The laps of stint st of driver d in a frame.
LapsOfStint(df, d, st) ==
    { x \in { df[i] : i \in 1..Len(df) } : x.driver = d /\ x.stint = st }

\* The laps of a set that have both tyre_life and lap_time.
ValidPairs(S) == { x \in S : pd_notna(x.tyre_life) /\ pd_notna(x.lap_time_seconds) }

\* b is the least-squares slope of lap_time on tyre_life over the pairs V:
\* it solves the normal equation b * Sxx = Sxy.
IsOLSSlope(b, V) ==
    LET n == Cardinality(V)
        sx == SumF([ p \in V |-> p.tyre_life ], V)
        sy == SumF([ p \in V |-> p.lap_time_seconds ], V)
        sxy == SumF([ p \in V |-> p.tyre_life * p.lap_time_seconds ], V)
        sxx == SumF([ p \in V |-> p.tyre_life * p.tyre_life ], V)
    IN  /\ b[2] > 0
        /\ b[1] * (n * sxx - sx * sx) = b[2] * (n * sxy - sx * sy)

\* C12: when a call has ended, every stint of the frame with at least 2 valid
\* (tyre_life, lap_time) pairs has, on every one of its laps, the
\* least-squares slope of its own valid pairs as degradation_rate.
C12_RateIsStintSlope ==
    calc_pc # "call" =>
        \A d \in {"PER", "VER"}, st \in {1, 2} :
           Cardinality(ValidPairs(LapsOfStint(frame, d, st))) >= 2 =>
              /\ calc_pc = "return"
              /\ \A i \in 1..Len(metrics) :
                    (metrics[i].driver = d /\ metrics[i].stint = st) =>
                        IsOLSSlope(metrics[i].degradation_rate,
                                   ValidPairs(LapsOfStint(frame, d, st)))

\* On the frames that are returned, the rate of a stint with at least 2
\* valid pairs is the slope of its own pairs.
RateIsStintSlopeOnReturn ==
    calc_pc = "return" =>
        \A i \in 1..Len(metrics) :
           LET V == ValidPairs(LapsOfStint(frame, metrics[i].driver, metrics[i].stint))
           IN  Cardinality(V) >= 2 => IsOLSSlope(metrics[i].degradation_rate, V)

\* C13: when a call has ended, every stint of the frame with fewer than 2
\* valid (tyre_life, lap_time) pairs has degradation_rate 0, not NaN, on
\* every one of its laps.
C13_FewPairsGiveZero ==
    calc_pc # "call" =>
        \A d \in {"PER", "VER"}, st \in {1, 2} :
           (/\ LapsOfStint(frame, d, st) # {}
            /\ Cardinality(ValidPairs(LapsOfStint(frame, d, st))) < 2) =>
              /\ calc_pc = "return"
              /\ \A i \in 1..Len(metrics) :
                    (metrics[i].driver = d /\ metrics[i].stint = st) =>
                        metrics[i].degradation_rate = << 0, 1 >>

\* On the frames that are returned, a stint with fewer than 2 valid pairs has
\* rate 0.
FewPairsGiveZeroOnReturn ==
    calc_pc = "return" =>
        \A i \in 1..Len(metrics) :
           Cardinality(ValidPairs(LapsOfStint(frame, metrics[i].driver,
                                              metrics[i].stint))) < 2
               => metrics[i].degradation_rate = << 0, 1 >>

\* The laps of the stint of lap m in the trailing window of m: m and the up
\* to 2 laps of the stint before it in lap order.
Window(df, m) ==
    LET S == LapsOfStint(df, m.driver, m.stint)
    IN  { y \in S :
            /\ y.lap_number <= m.lap_number
            /\ Cardinality({ z \in S : y.lap_number <= z.lap_number
                                        /\ z.lap_number <= m.lap_number }) <= 3 }

\* a is the mean of the lap times present in the window of m, NaN when the
\* window has none.
IsWindowMean(a, df, m) ==
    LET P == { y \in Window(df, m) : pd_notna(y.lap_time_seconds) }
    IN  IF P = {} THEN a = NaNq
        ELSE /\ a[2] > 0
             /\ a[1] * Cardinality(P) = a[2] * SumF([ y \in P |-> y.lap_time_seconds ], P)

\* C14: every call returns a frame in which lap_time_rolling_avg of every lap
\* is the mean of the lap times present among the lap and the up to 2 laps
\* before it in its stint, NaN when none of them has a lap time.
C14_RollingAvgOfStintWindow ==
    calc_pc # "call" =>
        /\ calc_pc = "return"
        /\ \A i \in 1..Len(metrics) :
              IsWindowMean(metrics[i].lap_time_rolling_avg, frame, metrics[i])

\* On the frames that are returned, the rolling average is the mean of the
\* stint's trailing window.
RollingAvgOfStintWindowOnReturn ==
    calc_pc = "return" =>
        \A i \in 1..Len(metrics) :
           IsWindowMean(metrics[i].lap_time_rolling_avg, frame, metrics[i])

\* The frames the races of the schedule contribute to the result, in
\* schedule order: those of the rounds in `ok`.
Expected(ok, F(_)) ==
    concat([ i \in 1..Len(schedule) |->
               IF schedule[i] \in ok THEN F(schedule[i]) ELSE <<>> ])

\* The rounds whose iteration finished with no lap frame or no pit-stop frame.
FailedRounds ==
    { processed[i] : i \in 1..Len(processed) } \ (DOMAIN lap_ok \cap pit_ok)

\* The frame collect_season_data collects for round r.
RaceMetrics(r) == degradation_metrics(clean(lap_ok[r]))

\* C15: a collection run in which the collection of a race has failed does
\* not end with an exception; when a run returns, every race of its schedule
\* has been processed, whatever failed before it, and the result holds the
\* laps and the pit stops of exactly the races whose collection succeeded.
C15_RaceFailureIsIsolated ==
    /\ season_pc = "raise" => FailedRounds = {}
    /\ season_pc = "return" =>
          /\ processed = schedule
          /\ season_result.laps = Expected(DOMAIN lap_ok, RaceMetrics)
          /\ season_result.pits = Expected(pit_ok, PitStops)

\* No failure of a lap or pit-stop collection ends the run: the pit stops of
\* the race or the next race come next.
FailedCollectionGoesOn ==
    [][(collect_race_lap_data_none => season_pc' = "pits")
       /\ (collect_pit_stop_data_none => season_pc' = "laps")]_vars

IsFetch(e) == e \in {"get schedule", "load session", "get pitstops", "get results"}

\* C17: no two external fetches of a collection run follow each other with no
\* sleep between them, and the fetch that ends a race (its pit stops) is
\* followed by the longer pause.
C17_DelayBeforeEveryFetch ==
    \A k \in 1..Len(net_log) :
       /\ (k < Len(net_log) /\ IsFetch(net_log[k])) => ~IsFetch(net_log[k + 1])
       /\ net_log[k] = "get pitstops" => (k < Len(net_log) /\ net_log[k + 1] = "sleep 2")

\* C19: with a cap N the run processes at most N races, the first of the
\* season in order; a run that fetched its schedule and returned has
\* processed the first N races (all of them when there are fewer, or no cap).
C19_AtMostMaxRaces ==
    /\ processed = SubSeq(season, 1, Len(processed))
    /\ max_races # None => Len(processed) <= max_races
    /\ (season_pc = "return" /\ schedule # <<>>) =>
          Len(processed) = IF max_races = None THEN Len(season)
                           ELSE Min(max_races, Len(season))

\* C16: when the rows of a chunk are done and its batch is about to be
\* written, every race_id and driver_id of the batch, taken from race_map and
\* driver_map, is the id of a row the connection sees in races and drivers.
C16_CachedIdsExistAtBatchWrite ==
    (RowsOfChunkDone /\ lap_data # <<>>) =>
        \A i \in 1..Len(lap_data) :
           /\ lap_data[i].race_id \in RaceIds(tx)
           /\ lap_data[i].driver_id \in DriverIds(tx)

\* The (race, driver, stint) triples of the lap rows of a store.
Triples(store) ==
    { << r.race_id, r.driver_id, r.stint_number >> : r \in store.lap_times }

\* C18: the stint pass runs only when every lap file has been read to its end
\* and no lap row is uncommitted; it calls the stint computation on the
\* distinct triples of lap_times one after the other, a failed call is
\* rolled back, and when the pass is over every triple has been called
\* exactly once, whatever call failed.
C18_StintPassAfterLoadsOncePerTriple ==
    /\ pc \in {"stints", "complete"} =>
          /\ loads_begun = Len(data_dir)
          /\ file_idx = Len(data_dir)
          /\ chunk_start >= Len(data_dir[file_idx])
          /\ tx.lap_times = db.lap_times
          /\ metrics_calls = SubSeq(stints, 1, stint_idx)
          /\ { stints[i] : i \in 1..Len(stints) } = Triples(db)
          /\ \A i, j \in 1..Len(stints) : stints[i] = stints[j] => i = j
          /\ stint_idx > 0 => tx = db
    /\ pc = "complete" => stint_idx = Len(stints)

\* C18 witness: a run completed in which the call for one triple failed and
\* the call for a later triple stored its metrics.
C18_Witness ==
    /\ pc = "complete"
    /\ \E i, j \in 1..Len(metrics_calls) :
          /\ i < j
          /\ metrics_calls[i] \notin db.stint_metrics
          /\ metrics_calls[j] \in db.stint_metrics

====
